---- MODULE Spec2Model ----
(***************************************************************************)
(* The object cache and the arena/runtime-state lifecycle of               *)
(* python/protobuf.c.                                                       *)
(*                                                                         *)
(* The machine state (module object, module state, cache table, wrapper    *)
(* objects, native arenas) is held in the variables below; every C         *)
(* function of the file is an operator from a machine record to a machine  *)
(* record, and every action applies one handler as a whole.                *)
(*                                                                         *)
(* Specifications: Spec (the handlers used as the protocol prescribes),    *)
(* SpecMisuse (plus Add and Delete called against their preconditions),    *)
(* SpecForbidden (plus direct construction attempts), SpecArena (wrappers  *)
(* of objects that live in an arena wrapper's arena) and SpecThreads (the  *)
(* cache calls issued by the threads of a multi-threaded host).            *)
(*                                                                         *)
(* assert() is taken as compiled in (a failed assert aborts the process).  *)
(* A crash or abort is the flag `fatal`; nothing runs after it.            *)
(***************************************************************************)
EXTENDS Integers, Sequences, FiniteSets, TLC

\* ---------------------------------------------------------------- bounds
MaxKeys == 2
MaxWrappers == 3
MaxRefs == 2
MaxClasses == 2
MaxThreads == 2

NULL == 0
Keys == 1..MaxKeys
WIds == 1..MaxWrappers
ArenaIds == 1..MaxWrappers
\* The wrapper types whose tp_new is PyUpb_Forbidden_New.
Classes == 1..MaxClasses
\* The threads of a multi-threaded host, and the address they all use.
Threads == 1..MaxThreads
SharedKey == 1
\* The values an uninitialised upb_value can hold: NULL or some non-NULL bits.
Indeterminate == {NULL, 1}
\* The registration steps of PyInit__message, in source order; 0: none fails.
InitSteps == <<"InitDescriptorContainers", "InitDescriptorPool",
               "InitDescriptor", "InitArena">>
FailPoints == 0..4

VARIABLES
  mod_st,       \* the module object: "none" | "live" | "freed"
  mod_refcnt,   \* its reference count
  by_index,     \* the interpreter's modules_by_index holds it (PyState_FindModule)
  cache_arena,  \* state->obj_cache_arena: "unset" | "live" | "freed"
  n_new,        \* upb_arena_new() calls made for obj_cache_arena
  n_free,       \* upb_arena_free() calls made on obj_cache_arena
  obj_cache,    \* state->obj_cache: key -> wrapper, NULL when absent
  arena_type,   \* state->arena_type is set
  objs,         \* wrapper objects: [st, refcnt, kind, key, arena, owner]
  name_refcnt,  \* per class: the reference count of its __name__ string
  arenas,       \* native arenas made by PyUpb_Arena_New: "unalloc"|"live"|"freed"|"double_freed"
  fatal,        \* the process has aborted or crashed
  log,          \* the calls made by the handler that ran last, in order
  handles,      \* owning handles the consumers hold on each wrapper
  ret,          \* what the handler that ran last returned
  lastOp,       \* per key: w when the last Add/Remove issued on it was Add(key, w), else NULL
  th,           \* per thread of a multi-threaded host: [pc, w, mode]
  issued        \* per key: the wrapper the last get-or-create returned, NULL once destroyed

vars == <<mod_st, mod_refcnt, by_index, cache_arena, n_new, n_free, obj_cache,
          arena_type, objs, arenas, name_refcnt, fatal, log, handles, ret,
          lastOp, issued, th>>

\* ------------------------------------------------------------ the machine
NoObj == [st |-> "unborn", refcnt |-> 0, kind |-> "none", key |-> NULL,
          arena |-> NULL, owner |-> NULL]

\* The machine as one record, at the start of a handler (its log is empty).
M == [mod_st |-> mod_st, mod_refcnt |-> mod_refcnt, by_index |-> by_index,
      cache_arena |-> cache_arena, n_new |-> n_new, n_free |-> n_free,
      obj_cache |-> obj_cache, arena_type |-> arena_type, objs |-> objs,
      arenas |-> arenas, name_refcnt |-> name_refcnt, fatal |-> fatal,
      log |-> <<>>]

Commit(m) ==
  /\ mod_st' = m.mod_st
  /\ mod_refcnt' = m.mod_refcnt
  /\ by_index' = m.by_index
  /\ cache_arena' = m.cache_arena
  /\ n_new' = m.n_new
  /\ n_free' = m.n_free
  /\ obj_cache' = m.obj_cache
  /\ arena_type' = m.arena_type
  /\ objs' = m.objs
  /\ arenas' = m.arenas
  /\ name_refcnt' = m.name_refcnt
  /\ fatal' = m.fatal
  /\ log' = m.log

Ev(m, name, a, b) == [m EXCEPT !.log = Append(@, <<name, a, b>>)]
Abort(m) == [m EXCEPT !.fatal = TRUE]
\* The handler has made the call `name`.
Called(m, name) == \E i \in DOMAIN m.log : m.log[i][1] = name


\* ------------------------------------------------------------ ModuleState
\* PyState_FindModule(&module_def): TRUE for the module, FALSE for NULL.
PyState_FindModule(m) == m.by_index

\* TRUE when the accessor returns the state; otherwise PyModule_GetState(NULL)
\* or assert(state) ends the process.
PyUpb_ModuleState_GetFromModule(m, module) == module /\ m.mod_st = "live"

\* A variant of PyUpb_ModuleState_Get with a slip: the state pointer found at
\* the first call is kept and returned without asking the interpreter again.
PyUpb_ModuleState_Get_Cached(m) == m.mod_st # "none"

PyUpb_ModuleState_Get(m) ==
  PyUpb_ModuleState_GetFromModule(m, PyState_FindModule(m))

\* ------------------------------------------------------------ upb_inttable
EmptyTable == [k \in Keys |-> NULL]

upb_inttable_lookup(t, key) == t[key]

\* Inserting a key that is present is an internal-consistency violation: the
\* insert does not happen (ok = FALSE) and the table is left as it was.
upb_inttable_insert(t, key, val) ==
  [ok |-> t[key] = NULL,
   t  |-> IF t[key] = NULL THEN [t EXCEPT ![key] = val] ELSE t]

\* Reports whether the key was there; writes the value out only when it was.
upb_inttable_remove(t, key) ==
  [found |-> t[key] # NULL, val |-> t[key], t |-> [t EXCEPT ![key] = NULL]]

\* ------------------------------------------------------------ ObjectCache
\* Variants of PyUpb_ObjCache_Add with a slip: the insert is forgotten; the
\* entry is written over whatever is there; the cache takes a counted reference.
PyUpb_ObjCache_Add_NoInsert(m, key, py_obj) ==
  IF ~PyUpb_ModuleState_Get(m) THEN Abort(m)
  ELSE Ev(m, "Add", key, py_obj)

PyUpb_ObjCache_Add_Overwrite(m, key, py_obj) ==
  IF ~PyUpb_ModuleState_Get(m) THEN Abort(m)
  ELSE [Ev(m, "Add", key, py_obj) EXCEPT !.obj_cache[key] = py_obj]

PyUpb_ObjCache_Add_Owning(m, key, py_obj) ==
  IF ~PyUpb_ModuleState_Get(m) THEN Abort(m)
  ELSE LET r  == upb_inttable_insert(m.obj_cache, key, py_obj)
           m1 == Ev(m, "Add", key, py_obj)
       IN IF r.ok
          THEN [m1 EXCEPT !.obj_cache = r.t, !.objs[py_obj].refcnt = @ + 1]
          ELSE Abort(m1)

PyUpb_ObjCache_Add(m, key, py_obj) ==
  IF ~PyUpb_ModuleState_Get(m) THEN Abort(m)
  ELSE LET r  == upb_inttable_insert(m.obj_cache, key, py_obj)
           m1 == Ev(m, "Add", key, py_obj)
       IN IF r.ok THEN [m1 EXCEPT !.obj_cache = r.t] ELSE Abort(m1)

\* A variant of PyUpb_ObjCache_Delete with a slip: the entry is looked up and
\* checked but left in the table.
PyUpb_ObjCache_Delete_KeepsEntry(m, key, u) ==
  IF ~PyUpb_ModuleState_Get(m) THEN Abort(m)
  ELSE LET val == IF m.obj_cache[key] # NULL THEN m.obj_cache[key] ELSE u
           m1  == Ev(m, "Remove", key, NULL)
       IN IF val # NULL THEN m1 ELSE Abort(m1)

\* A variant of PyUpb_ObjCache_Delete with a slip: the table is reached through
\* a saved state pointer, without the accessor.
PyUpb_ObjCache_Delete_NoAccessor(m, key, u) ==
  LET r   == upb_inttable_remove(m.obj_cache, key)
      val == IF r.found THEN r.val ELSE u
      m1  == Ev([m EXCEPT !.obj_cache = r.t], "Remove", key, NULL)
  IN IF val # NULL THEN m1 ELSE Abort(m1)

\* `u` is the indeterminate content of the local `val`, which
\* upb_inttable_remove leaves unwritten when the key is absent; the assert
\* reads it.
PyUpb_ObjCache_Delete(m, key, u) ==
  IF ~PyUpb_ModuleState_Get(m) THEN Abort(m)
  ELSE LET r   == upb_inttable_remove(m.obj_cache, key)
           val == IF r.found THEN r.val ELSE u
           m1  == Ev([m EXCEPT !.obj_cache = r.t], "Remove", key, NULL)
       IN IF val # NULL THEN m1 ELSE Abort(m1)

\* Variants of PyUpb_ObjCache_Get with a slip: the lookup's result is dropped;
\* the hit is returned without Py_INCREF.
PyUpb_ObjCache_Get_AlwaysMiss(m, key) ==
  IF ~PyUpb_ModuleState_Get(m) THEN [m |-> Abort(m), val |-> NULL]
  ELSE [m |-> Ev(m, "Get", key, NULL), val |-> NULL]

PyUpb_ObjCache_Get_NoIncref(m, key) ==
  IF ~PyUpb_ModuleState_Get(m) THEN [m |-> Abort(m), val |-> NULL]
  ELSE LET v == upb_inttable_lookup(m.obj_cache, key)
       IN [m |-> Ev(m, "Get", key, v), val |-> v]

\* A variant of PyUpb_ObjCache_Get with a slip: a hit takes the entry out of
\* the table.
PyUpb_ObjCache_Get_Evicts(m, key) ==
  IF ~PyUpb_ModuleState_Get(m) THEN [m |-> Abort(m), val |-> NULL]
  ELSE LET v  == upb_inttable_lookup(m.obj_cache, key)
           m1 == Ev(m, "Get", key, v)
       IN IF v # NULL
          THEN [m |-> [m1 EXCEPT !.objs[v].refcnt = @ + 1,
                                 !.obj_cache[key] = NULL], val |-> v]
          ELSE [m |-> m1, val |-> NULL]

\* Returns the machine and the returned pointer.
PyUpb_ObjCache_Get(m, key) ==
  IF ~PyUpb_ModuleState_Get(m) THEN [m |-> Abort(m), val |-> NULL]
  ELSE LET v  == upb_inttable_lookup(m.obj_cache, key)
           m1 == Ev(m, "Get", key, v)
       IN IF v # NULL
          THEN [m |-> [m1 EXCEPT !.objs[v].refcnt = @ + 1], val |-> v]
          ELSE [m |-> m1, val |-> NULL]

\* ------------------------------------------------------------------ Arena
Unborn(m) == {w \in WIds : m.objs[w].st = "unborn"}
NewId(m) == CHOOSE w \in Unborn(m) : \A v \in Unborn(m) : w <= v
Unalloc(m) == {a \in ArenaIds : m.arenas[a] = "unalloc"}
NewArenaId(m) == CHOOSE a \in Unalloc(m) : \A b \in Unalloc(m) : a <= b

upb_arena_new(m, a) == Ev([m EXCEPT !.arenas[a] = "live"], "upb_arena_new", a, NULL)

upb_arena_free(m, a) ==
  Ev([m EXCEPT !.arenas[a] = IF @ = "live" THEN "freed" ELSE "double_freed"],
     "upb_arena_free", a, NULL)

\* PyType_GenericAlloc: a new object with reference count 1.
PyType_GenericAlloc(m, w, kind, key) ==
  Ev([m EXCEPT !.objs[w] = [st |-> "live", refcnt |-> 1, kind |-> kind,
                            key |-> key, arena |-> NULL, owner |-> NULL]],
     "alloc", w, key)

\* A variant of PyUpb_Arena_New with a slip: the new wrapper is entered in the
\* cache under the address of its arena.
PyUpb_Arena_New_Registered(m, alloc_ok) ==
  IF ~PyUpb_ModuleState_Get(m) \/ ~m.arena_type
  THEN [m |-> Abort(m), val |-> NULL]
  ELSE IF ~alloc_ok
  THEN [m |-> Abort(upb_arena_new(m, NewArenaId(m))), val |-> NULL]
  ELSE LET w  == NewId(m)
           a  == NewArenaId(m)
           m1 == upb_arena_new(PyType_GenericAlloc(m, w, "arena", NULL), a)
           m2 == [m1 EXCEPT !.objs[w].arena = a]
       IN [m |-> IF a \in Keys THEN PyUpb_ObjCache_Add(m2, a, w) ELSE m2,
           val |-> w]

\* `alloc_ok`: whether PyType_GenericAlloc returns an object. Its result is
\* not checked: upb_arena_new() is called and its result stored through the
\* pointer, which crashes when the pointer is NULL.
PyUpb_Arena_New(m, alloc_ok) ==
  IF ~PyUpb_ModuleState_Get(m) \/ ~m.arena_type
  THEN [m |-> Abort(m), val |-> NULL]
  ELSE IF ~alloc_ok
  THEN [m |-> Abort(upb_arena_new(m, NewArenaId(m))), val |-> NULL]
  ELSE LET w  == NewId(m)
           a  == NewArenaId(m)
           m1 == upb_arena_new(PyType_GenericAlloc(m, w, "arena", NULL), a)
       IN [m |-> [m1 EXCEPT !.objs[w].arena = a], val |-> w]

PyUpb_Arena_Get(m, w) == m.objs[w].arena

\* protobuf.h: tp_free(self), then the type is released.
PyUpb_Dealloc(m, w) == Ev([m EXCEPT !.objs[w].st = "dead"], "tp_free", w, NULL)

\* A variant of PyUpb_Arena_Dealloc with a slip: the arena is freed a second
\* time after the wrapper's storage.
PyUpb_Arena_Dealloc_FreesTwice(m, w) ==
  upb_arena_free(PyUpb_Dealloc(upb_arena_free(m, PyUpb_Arena_Get(m, w)), w),
                 PyUpb_Arena_Get(m, w))

\* A variant of PyUpb_Arena_Dealloc with a slip: the wrapper's storage is
\* freed before the arena it names.
PyUpb_Arena_Dealloc_StorageFirst(m, w) ==
  upb_arena_free(PyUpb_Dealloc(m, w), PyUpb_Arena_Get(m, w))

PyUpb_Arena_Dealloc(m, w) ==
  PyUpb_Dealloc(upb_arena_free(m, PyUpb_Arena_Get(m, w)), w)

\* Py_DECREF of an arena wrapper: at zero its tp_dealloc runs.
Arena_DECREF(m, w) ==
  LET m1 == [m EXCEPT !.objs[w].refcnt = @ - 1]
  IN IF m1.objs[w].refcnt > 0 THEN m1 ELSE PyUpb_Arena_Dealloc(m1, w)

\* ------------------------------------------- cache-registered wrapper kinds
\* The destructor of a wrapper registered under its native address: Remove,
\* then release the native resource, then free the wrapper's storage.
\* A wrapper whose native object lives in the arena of an arena wrapper (its
\* `owner`) holds a counted reference on that wrapper and drops it when it
\* releases the native resource.
Wrapper_Dealloc(m, w, u) ==
  LET m1 == PyUpb_ObjCache_Delete(m, m.objs[w].key, u)
  IN IF m1.fatal THEN m1
     ELSE LET m2 == Ev(m1, "release", m.objs[w].key, w)
              m3 == IF m.objs[w].owner # NULL
                    THEN Arena_DECREF(m2, m.objs[w].owner) ELSE m2
          IN PyUpb_Dealloc(m3, w)

\* Get-or-create: look the address up; on a miss construct and Add.
Wrapper_Get(m, key) ==
  LET r == PyUpb_ObjCache_Get(m, key)
  IN IF r.m.fatal \/ r.val # NULL THEN r
     ELSE LET w == NewId(r.m)
          IN [m |-> PyUpb_ObjCache_Add(PyType_GenericAlloc(r.m, w, "desc", key), key, w),
              val |-> w]

\* Py_DECREF of a wrapper: at zero the type's tp_dealloc runs.
Py_DECREF(m, w, u) ==
  LET m1 == [m EXCEPT !.objs[w].refcnt = @ - 1]
  IN IF m1.objs[w].refcnt > 0 THEN m1
     ELSE IF m1.objs[w].kind = "arena" THEN PyUpb_Arena_Dealloc(m1, w)
     ELSE Wrapper_Dealloc(m1, w, u)

\* A variant of Wrapper_GetIn with a slip: the new wrapper keeps the arena
\* wrapper's address without taking a reference on it.
Wrapper_GetIn_Borrowed(m, key, aw) ==
  LET r == PyUpb_ObjCache_Get(m, key)
  IN IF r.m.fatal \/ r.val # NULL THEN r
     ELSE LET w  == NewId(r.m)
              m1 == PyType_GenericAlloc(r.m, w, "desc", key)
          IN [m |-> PyUpb_ObjCache_Add([m1 EXCEPT !.objs[w].owner = aw], key, w),
              val |-> w]

\* Get-or-create of a wrapper whose native object lives in the arena of the
\* arena wrapper aw: on a miss the new wrapper takes a reference on aw.
Wrapper_GetIn(m, key, aw) ==
  LET r == PyUpb_ObjCache_Get(m, key)
  IN IF r.m.fatal \/ r.val # NULL THEN r
     ELSE LET w  == NewId(r.m)
              m1 == PyType_GenericAlloc(r.m, w, "desc", key)
              m2 == [m1 EXCEPT !.objs[w].owner = aw, !.objs[aw].refcnt = @ + 1]
          IN [m |-> PyUpb_ObjCache_Add(m2, key, w), val |-> w]

\* ------------------------------------------------------------ module
\* A variant of PyUpb_ModuleDealloc with a slip: the arena is freed twice.
PyUpb_ModuleDealloc_FreesTwice(m) ==
  Ev(Ev([m EXCEPT !.cache_arena = "freed", !.n_free = @ + 2],
        "upb_arena_free", NULL, NULL), "upb_arena_free", NULL, NULL)

PyUpb_ModuleDealloc(m) ==
  Ev([m EXCEPT !.cache_arena = "freed", !.n_free = @ + 1],
     "upb_arena_free", NULL, NULL)

\* The module object's deallocation: m_free, then the object is gone.
module_dealloc(m) == [PyUpb_ModuleDealloc(m) EXCEPT !.mod_st = "freed"]

\* Py_DECREF of the module object.
Module_DECREF(m) ==
  LET m1 == [m EXCEPT !.mod_refcnt = @ - 1]
  IN IF m1.mod_refcnt > 0 THEN m1 ELSE module_dealloc(m1)

\* PyModule_Create: a new module object with reference count 1.
PyModule_Create(m) == [m EXCEPT !.mod_st = "live", !.mod_refcnt = 1]

\* PyState_AddModule: the interpreter state takes a reference of its own.
PyState_AddModule(m) == [m EXCEPT !.by_index = TRUE, !.mod_refcnt = @ + 1]

RECURSIVE RunSteps_All(_, _, _)
\* A variant of RunSteps with a slip: the steps after a failed one still run.
RunSteps_All(m, i, fail) ==
  IF i > 4 THEN m
  ELSE IF i = fail THEN RunSteps_All(Ev(m, InitSteps[i], 0, NULL), i + 1, fail)
  ELSE RunSteps_All([Ev(m, InitSteps[i], 1, NULL) EXCEPT
                       !.arena_type = IF i = 4 THEN TRUE ELSE @], i + 1, fail)

RECURSIVE RunSteps(_, _, _)
\* Registration steps i..4, stopping at the first that fails (`fail`).
RunSteps(m, i, fail) ==
  IF i > 4 THEN m
  ELSE IF i = fail THEN Ev(m, InitSteps[i], 0, NULL)
  ELSE RunSteps([Ev(m, InitSteps[i], 1, NULL) EXCEPT
                   !.arena_type = IF i = 4 THEN TRUE ELSE @], i + 1, fail)

PyInit__message(m, fail) ==
  LET m1 == PyState_AddModule(PyModule_Create(m))
  IN IF ~PyUpb_ModuleState_Get(m1) THEN [m |-> Abort(m1), val |-> NULL]
     ELSE LET m2 == Ev([m1 EXCEPT !.cache_arena = "live", !.n_new = @ + 1],
                       "upb_arena_new", NULL, NULL)
              m3 == Ev([m2 EXCEPT !.obj_cache = EmptyTable],
                       "upb_inttable_init", NULL, NULL)
              m4 == RunSteps(m3, 1, fail)
          IN IF fail # 0 THEN [m |-> Module_DECREF(m4), val |-> NULL]
             ELSE [m |-> m4, val |-> 1]

\* Interpreter finalisation: the interpreter state and sys.modules drop their
\* references and the module object is deallocated (m_free runs).
Py_Finalize(m) ==
  module_dealloc([m EXCEPT !.by_index = FALSE, !.mod_refcnt = 0])

\* ------------------------------------------------------ forbidden tp_new
\* The string object that is the __name__ of class cls (one per class).
TypeName(cls) == cls

\* PyObject_GetAttrString(cls, "__name__"): a new reference to the name, or
\* NULL when the lookup fails (`name_ok` FALSE: the string for the attribute
\* name cannot be allocated).
PyObject_GetAttrString(m, cls, name_ok) ==
  LET m1 == Ev(m, "PyObject_GetAttrString", cls, NULL)
  IN IF name_ok
     THEN [m |-> [m1 EXCEPT !.name_refcnt[cls] = @ + 1], val |-> TypeName(cls)]
     ELSE [m |-> m1, val |-> NULL]

\* PyErr_Format(PyExc_RuntimeError, "Objects of type %U may not be created
\* directly.", name): sets a RuntimeError whose message holds the text of
\* `name`. %U reads the object it is given, so a NULL name crashes inside the
\* call and no error is set.
PyErr_Format(m, name) ==
  IF name = NULL THEN Abort(m) ELSE Ev(m, "PyErr_Format", name, NULL)

Py_XDECREF(m, cls, name) ==
  IF name = NULL THEN m ELSE [m EXCEPT !.name_refcnt[cls] = @ - 1]

PyUpb_Forbidden_New(m, cls, name_ok) ==
  LET r  == PyObject_GetAttrString(m, cls, name_ok)
      m1 == PyErr_Format(r.m, r.val)
  IN [m |-> IF m1.fatal THEN m1 ELSE Py_XDECREF(m1, cls, r.val), val |-> NULL]

\* ------------------------------------------------------------ the runtime
RuntimeState ==
  IF mod_st = "none" THEN "Uninitialized"
  ELSE IF cache_arena = "live" /\ PyUpb_ModuleState_Get(M) THEN "Active"
  ELSE "TornDown"

TypeOK ==
  /\ mod_st \in {"none", "live", "freed"}
  /\ mod_refcnt \in 0..2
  /\ by_index \in BOOLEAN
  /\ cache_arena \in {"unset", "live", "freed"}
  /\ obj_cache \in [Keys -> WIds \cup {NULL}]
  /\ fatal \in BOOLEAN
  /\ handles \in [WIds -> 0..MaxRefs]
  /\ name_refcnt \in [Classes -> {1}]
  /\ \A t \in Threads : th[t].pc \in {"idle", "miss", "have"}

Init ==
  /\ mod_st = "none"
  /\ mod_refcnt = 0
  /\ by_index = FALSE
  /\ cache_arena = "unset"
  /\ n_new = 0
  /\ n_free = 0
  /\ obj_cache = EmptyTable
  /\ arena_type = FALSE
  /\ objs = [w \in WIds |-> NoObj]
  /\ arenas = [a \in ArenaIds |-> "unalloc"]
  /\ name_refcnt = [c \in Classes |-> 1]
  /\ fatal = FALSE
  /\ log = <<>>
  /\ handles = [w \in WIds |-> 0]
  /\ ret = [op |-> "none", key |-> NULL, val |-> NULL]
  /\ lastOp = [k \in Keys |-> NULL]
  /\ issued = [k \in Keys |-> NULL]
  /\ th = [t \in Threads |-> [pc |-> "idle", w |-> NULL, mode |-> "none"]]

\* ------------------------------------------------------------ actions
\* The host imports the module: PyInit__message runs, once.
Load(fail) ==
  /\ ~fatal
  /\ mod_st = "none"
  /\ LET r == PyInit__message(M, fail)
     IN /\ Commit(r.m)
        /\ ret' = [op |-> "Load", key |-> fail, val |-> r.val]
  /\ UNCHANGED <<handles, lastOp, issued, th>>

\* The host unloads the module.
Unload ==
  /\ ~fatal
  /\ mod_st = "live"
  /\ Commit(Py_Finalize(M))
  /\ ret' = [op |-> "Unload", key |-> NULL, val |-> NULL]
  /\ UNCHANGED <<handles, lastOp, issued, th>>

\* A consumer looks an address up.
Lookup(p) ==
  /\ ~fatal
  /\ LET r == PyUpb_ObjCache_Get(M, p)
     IN /\ r.val # NULL => handles[r.val] < MaxRefs
        /\ Commit(r.m)
        /\ handles' = IF r.val # NULL THEN [handles EXCEPT ![r.val] = @ + 1]
                      ELSE handles
        /\ ret' = [op |-> "Get", key |-> p, val |-> r.val]
  /\ UNCHANGED <<lastOp, issued, th>>

\* A consumer asks for the wrapper of native address p.
GetOrCreate(p) ==
  /\ ~fatal
  /\ Unborn(M) # {}
  /\ LET r == Wrapper_Get(M, p)
         hit == obj_cache[p] # NULL
     IN /\ (r.val # NULL /\ handles[r.val] > 0) => handles[r.val] < MaxRefs
        /\ Commit(r.m)
        /\ handles' = IF r.m.fatal THEN handles
                      ELSE [handles EXCEPT ![r.val] = @ + 1]
        /\ ret' = [op |-> "GetOrCreate", key |-> p,
                   val |-> IF r.m.fatal THEN NULL ELSE r.val]
        /\ lastOp' = IF Called(r.m, "Add") THEN [lastOp EXCEPT ![p] = r.val]
                     ELSE lastOp
        /\ issued' = IF r.m.fatal THEN issued ELSE [issued EXCEPT ![p] = r.val]
  /\ UNCHANGED th

\* NewArenaHandle.
NewArena(alloc_ok) ==
  /\ ~fatal
  /\ Unborn(M) # {}
  /\ Unalloc(M) # {}
  /\ LET r == PyUpb_Arena_New(M, alloc_ok)
     IN /\ Commit(r.m)
        /\ handles' = IF r.val # NULL THEN [handles EXCEPT ![r.val] = 1]
                      ELSE handles
        /\ ret' = [op |-> "NewArena", key |-> NULL, val |-> r.val]
  /\ UNCHANGED <<lastOp, issued, th>>

\* A consumer releases one handle on wrapper w; the last release destroys it.
Release(w) ==
  /\ ~fatal
  /\ handles[w] > 0
  /\ \E u \in Indeterminate :
       /\ Commit(Py_DECREF(M, w, u))
       /\ handles' = [handles EXCEPT ![w] = @ - 1]
       /\ ret' = [op |-> "Release", key |-> objs[w].key, val |-> w]
       /\ LET k == objs[w].key
              m == Py_DECREF(M, w, u)
          IN /\ lastOp' = IF Called(m, "Remove") THEN [lastOp EXCEPT ![k] = NULL]
                          ELSE lastOp
             /\ issued' = IF Called(m, "tp_free") /\ k # NULL /\ issued[k] = w
                          THEN [issued EXCEPT ![k] = NULL] ELSE issued
  /\ UNCHANGED th

Next ==
  \/ \E fail \in FailPoints : Load(fail)
  \/ Unload
  \/ \E p \in Keys : Lookup(p)
  \/ \E p \in Keys : GetOrCreate(p)
  \/ \E ok \in BOOLEAN : NewArena(ok)
  \/ \E w \in WIds : Release(w)

Spec == Init /\ [][Next]_vars

\* Callers that break the preconditions: an Add of another live wrapper
\* under a key that is present, a Remove of a key that is absent (a wrapper
\* that was never registered, or a second destroy).
DuplicateAdd(p, w) ==
  /\ ~fatal
  /\ obj_cache[p] # NULL
  /\ objs[w].st = "live"
  /\ obj_cache[p] # w
  /\ LET m == PyUpb_ObjCache_Add(M, p, w)
     IN /\ Commit(m)
        /\ lastOp' = IF Called(m, "Add") THEN [lastOp EXCEPT ![p] = w] ELSE lastOp
  /\ ret' = [op |-> "Add", key |-> p, val |-> w]
  /\ UNCHANGED <<handles, issued, th>>

StrayDelete(p) ==
  /\ ~fatal
  /\ obj_cache[p] = NULL
  /\ \E u \in Indeterminate : Commit(PyUpb_ObjCache_Delete(M, p, u))
  /\ ret' = [op |-> "Delete", key |-> p, val |-> NULL]
  /\ UNCHANGED <<handles, lastOp, issued, th>>

NextMisuse ==
  \/ Next
  \/ \E p \in Keys, w \in WIds : DuplicateAdd(p, w)
  \/ \E p \in Keys : StrayDelete(p)

SpecMisuse == Init /\ [][NextMisuse]_vars


\* ------------------------------------------- direct construction attempts
\* The host calls a wrapper type directly: its tp_new runs.
ForbiddenNew(cls, name_ok) ==
  /\ ~fatal
  /\ mod_st = "live" /\ arena_type
  /\ LET r == PyUpb_Forbidden_New(M, cls, name_ok)
     IN /\ Commit(r.m)
        /\ ret' = [op |-> "Forbidden_New", key |-> cls, val |-> r.val]
  /\ UNCHANGED <<handles, lastOp, issued, th>>

NextForbidden ==
  \/ \E fail \in FailPoints : Load(fail)
  \/ Unload
  \/ \E p \in Keys : GetOrCreate(p)
  \/ \E w \in WIds : Release(w)
  \/ \E cls \in Classes, name_ok \in BOOLEAN : ForbiddenNew(cls, name_ok)

SpecForbidden == Init /\ [][NextForbidden]_vars

\* ------------------------------------------------- arena-backed wrappers
\* A consumer holding the arena wrapper aw asks for the wrapper of native
\* address p, an object allocated from aw's arena.
GetOrCreateIn(p, aw) ==
  /\ ~fatal
  /\ Unborn(M) # {}
  /\ objs[aw].st = "live" /\ objs[aw].kind = "arena" /\ handles[aw] > 0
  /\ obj_cache[p] # NULL => objs[obj_cache[p]].owner = aw
  /\ LET r == Wrapper_GetIn(M, p, aw)
     IN /\ (r.val # NULL /\ handles[r.val] > 0) => handles[r.val] < MaxRefs
        /\ Commit(r.m)
        /\ handles' = IF r.m.fatal THEN handles
                      ELSE [handles EXCEPT ![r.val] = @ + 1]
        /\ ret' = [op |-> "GetOrCreate", key |-> p,
                   val |-> IF r.m.fatal THEN NULL ELSE r.val]
        /\ lastOp' = IF Called(r.m, "Add") THEN [lastOp EXCEPT ![p] = r.val]
                     ELSE lastOp
        /\ issued' = IF r.m.fatal THEN issued ELSE [issued EXCEPT ![p] = r.val]
  /\ UNCHANGED th

NextArena ==
  \/ \E fail \in FailPoints : Load(fail)
  \/ Unload
  \/ \E alloc_ok \in BOOLEAN : NewArena(alloc_ok)
  \/ \E p \in Keys, aw \in WIds : GetOrCreateIn(p, aw)
  \/ \E w \in WIds : Release(w)

SpecArena == Init /\ [][NextArena]_vars

\* ------------------------------------------------- a multi-threaded host
\* Threads that get-or-create and destroy the wrapper of SharedKey. Every
\* call of Get, Add and Remove runs inside one mutual-exclusion domain. A
\* thread in mode "whole" keeps the domain from its Get to its Add; a thread
\* in mode "percall" leaves it after each call.
Holds(t) == th[t].pc = "miss" /\ th[t].mode = "whole"
DomainFree(t) == \A s \in Threads \ {t} : ~Holds(s)

\* The Get of a get-or-create.
ThreadGet(t, mode) ==
  /\ ~fatal
  /\ th[t].pc = "idle"
  /\ DomainFree(t)
  /\ LET r == PyUpb_ObjCache_Get(M, SharedKey)
     IN /\ r.val # NULL => handles[r.val] < MaxRefs
        /\ Commit(r.m)
        /\ handles' = IF r.val # NULL THEN [handles EXCEPT ![r.val] = @ + 1]
                      ELSE handles
        /\ ret' = [op |-> "Get", key |-> SharedKey, val |-> r.val]
        /\ th' = [th EXCEPT ![t] =
                   IF r.m.fatal THEN @
                   ELSE IF r.val # NULL
                   THEN [pc |-> "have", w |-> r.val, mode |-> mode]
                   ELSE [pc |-> "miss", w |-> NULL, mode |-> mode]]
  /\ UNCHANGED <<lastOp, issued>>

\* After a miss: construct the wrapper and Add it.
ThreadAdd(t) ==
  /\ ~fatal
  /\ th[t].pc = "miss"
  /\ DomainFree(t)
  /\ Unborn(M) # {}
  /\ LET w == NewId(M)
         m == PyUpb_ObjCache_Add(PyType_GenericAlloc(M, w, "desc", SharedKey),
                                 SharedKey, w)
     IN /\ Commit(m)
        /\ handles' = IF m.fatal THEN handles ELSE [handles EXCEPT ![w] = 1]
        /\ ret' = [op |-> "Add", key |-> SharedKey, val |-> w]
        /\ th' = [th EXCEPT ![t] = IF m.fatal THEN @
                                   ELSE [pc |-> "have", w |-> w, mode |-> @.mode]]
  /\ UNCHANGED <<lastOp, issued>>

\* The thread drops its handle; the last one destroys the wrapper.
ThreadDestroy(t) ==
  /\ ~fatal
  /\ th[t].pc = "have"
  /\ DomainFree(t)
  /\ \E u \in Indeterminate :
       LET m == Py_DECREF(M, th[t].w, u)
       IN /\ Commit(m)
          /\ ret' = [op |-> "Release", key |-> SharedKey, val |-> th[t].w]
          /\ th' = [th EXCEPT ![t] = IF m.fatal THEN @
                                     ELSE [pc |-> "idle", w |-> NULL, mode |-> "none"]]
  /\ handles' = [handles EXCEPT ![th[t].w] = @ - 1]
  /\ UNCHANGED <<lastOp, issued>>

NextThreads ==
  \/ \E fail \in FailPoints : Load(fail)
  \/ \E t \in Threads, mode \in {"whole", "percall"} : ThreadGet(t, mode)
  \/ \E t \in Threads : ThreadAdd(t)
  \/ \E t \in Threads : ThreadDestroy(t)

SpecThreads == Init /\ [][NextThreads]_vars

\* ------------------------------------------------------------ claims
Active == RuntimeState = "Active"

\* The live wrappers constructed for native address p.
WrappersOf(p) ==
  {w \in WIds : objs[w].st = "live" /\ objs[w].kind = "desc" /\ objs[w].key = p}

\* The handler that ran last was a get-or-create that hit.
HitState ==
  /\ ret.op = "GetOrCreate" /\ ret.val # NULL
  /\ log = <<<<"Get", ret.key, ret.val>>>>

C1_OnePerAddress ==
  Active => \A p \in Keys :
    /\ Cardinality(WrappersOf(p)) <= 1
    /\ obj_cache[p] # NULL => WrappersOf(p) = {obj_cache[p]}

C1_SameInstance ==
  \A p \in Keys :
    (Active /\ issued[p] # NULL /\ GetOrCreate(p)) => ret'.val = issued[p]

\* C1: while the runtime is Active every native address has at most one live
\* wrapper, which is the one its cache entry names, and a get-or-create for an
\* address whose wrapper from the previous get-or-create has not been
\* destroyed returns that same wrapper.
C1_IdentityUniqueness == [](C1_OnePerAddress) /\ [][C1_SameInstance]_vars

\* A get-or-create has hit and returned the wrapper issued before.
C1_Witness == Active /\ HitState /\ handles[ret.val] = 2 /\ issued[ret.key] = ret.val

C3_RemoveMissingIsFatal ==
  [][\A p \in Keys : StrayDelete(p) => (fatal' /\ obj_cache' = obj_cache)]_vars

\* C4: while Active, Get(p) returns w exactly when the last Add/Remove issued
\* on p was Add(p, w) and not-found otherwise, and a get-or-create never hands
\* out a wrapper that was destroyed: after a destroy it registers a new one.
C4_GetFollowsLastOp ==
  Active => \A p \in Keys : PyUpb_ObjCache_Get(M, p).val = lastOp[p]

C4_NeverStale ==
  \A p \in Keys :
    (Active /\ GetOrCreate(p) /\ ~fatal')
      => /\ objs[ret'.val].st # "dead"
         /\ objs'[ret'.val].st = "live"
         /\ (obj_cache[p] = NULL => objs[ret'.val].st = "unborn")

C4_NoDanglingReuse == [](C4_GetFollowsLastOp) /\ [][C4_NeverStale]_vars

\* Address ret.key was wrapped, the wrapper destroyed, and a get-or-create
\* has registered a new wrapper for it.
C4_Witness ==
  /\ Active /\ ret.op = "GetOrCreate" /\ ret.val # NULL
  /\ obj_cache[ret.key] = ret.val
  /\ \E w \in WIds : w # ret.val /\ objs[w].st = "dead" /\ objs[w].key = ret.key

\* A step whose handler made the one call Get(p).
GetOnly == Len(log') = 1 /\ log'[1][1] = "Get"

C5_HitIncrefsOnce ==
  GetOnly =>
    LET v == log'[1][3]
    IN IF v # NULL THEN objs' = [objs EXCEPT ![v].refcnt = @ + 1]
       ELSE objs' = objs

C5_AliveWhileHeld == \A w \in WIds : handles[w] > 0 => objs[w].st = "live"

\* C5: a Get that hits adds exactly 1 to the reference count of the wrapper it
\* returns and changes nothing else of any wrapper, a Get that misses changes
\* no wrapper, and a wrapper is not destroyed while a handle handed out by its
\* creation or by a hit is still unreleased.
C5_RefcountOnHit == [](C5_AliveWhileHeld) /\ [][C5_HitIncrefsOnce]_vars

\* A bare Get has hit: the wrapper now has two owners.
C5_Witness ==
  /\ ret.op = "Get" /\ ret.val # NULL
  /\ objs[ret.val].refcnt = 2 /\ handles[ret.val] = 2

\* C6: the cache's reference is not counted: a live wrapper's reference count
\* is the number of handles its consumers hold, registered or not, no wrapper
\* stays alive on its cache entry alone, and a destroyed wrapper's count is
\* the zero it had reached when its destructor called Remove.
C6_CacheIsNonOwning ==
  ~fatal => \A w \in WIds :
    /\ objs[w].st = "live" => (objs[w].refcnt = handles[w] /\ handles[w] > 0)
    /\ objs[w].st # "live" => (handles[w] = 0 /\ objs[w].refcnt = 0)

\* A wrapper has just been constructed and registered: one handle, count 1.
C6_Witness ==
  /\ ~fatal /\ ret.op = "GetOrCreate" /\ ret.val # NULL
  /\ <<"Add", ret.key, ret.val>> \in {log[i] : i \in DOMAIN log}
  /\ obj_cache[ret.key] = ret.val /\ objs[ret.val].refcnt = 1

\* C7: while Active the keys present are exactly the addresses that have a
\* live registered wrapper, each entry names that wrapper, and no entry names
\* a wrapper that was destroyed or whose reference count is zero.
C7_NoDanglingEntry ==
  Active => \A p \in Keys :
    /\ obj_cache[p] # NULL <=> WrappersOf(p) # {}
    /\ obj_cache[p] # NULL =>
         /\ obj_cache[p] \in WrappersOf(p)
         /\ objs[obj_cache[p]].refcnt > 0

\* One address is registered while another's wrapper has been destroyed and
\* its key is gone.
C7_Witness ==
  /\ Active
  /\ \E p, q \in Keys :
       /\ obj_cache[p] # NULL /\ obj_cache[q] = NULL
       /\ \E w \in WIds : objs[w].st = "dead" /\ objs[w].key = q

\* The Remove calls the handler that ran last has made.
Removes == {j \in DOMAIN log : log[j][1] = "Remove"}

\* C8 as claimed: whatever its kind, a wrapper whose storage was freed had
\* Remove called exactly once by its destructor, before the native resource
\* was released and before the storage was freed.
C8_EveryKindRemovesFirst ==
  \A i \in DOMAIN log : log[i][1] = "tp_free" =>
    /\ Cardinality(Removes) = 1
    /\ \A j \in Removes, k \in DOMAIN log :
         log[k][1] \in {"release", "upb_arena_free", "tp_free"} => j < k

\* C8, amended: the destructor of a cache-registered wrapper for address p
\* calls Remove(p) exactly once, then releases the native resource, then
\* frees the wrapper's storage; the arena-holder wrapper is never registered
\* and its destructor calls no Remove: it frees its arena, then its storage.
C8_DestructionProtocol ==
  \A i \in DOMAIN log : log[i][1] = "tp_free" =>
    LET w == log[i][2]
        k == objs[w].key
    IN IF objs[w].kind = "arena"
       THEN /\ log = << <<"upb_arena_free", objs[w].arena, NULL>>,
                        <<"tp_free", w, NULL>> >>
            /\ \A p \in Keys : obj_cache[p] # w
       ELSE log = << <<"Remove", k, NULL>>, <<"release", k, w>>,
                     <<"tp_free", w, NULL>> >>

\* An arena-holder wrapper has just been destroyed.
C8_Witness ==
  /\ ret.op = "Release"
  /\ objs[ret.val].kind = "arena" /\ objs[ret.val].st = "dead"
  /\ arenas[objs[ret.val].arena] = "freed"
  /\ <<"tp_free", ret.val, NULL>> \in {log[i] : i \in DOMAIN log}

C9_Counts ==
  /\ n_new <= 1 /\ n_free <= n_new
  /\ RuntimeState = "Uninitialized" =>
       (n_new = 0 /\ n_free = 0 /\ cache_arena = "unset")
  /\ RuntimeState = "Active" => (n_new = 1 /\ n_free = 0)
  /\ RuntimeState = "TornDown" =>
       (n_new = 1 /\ n_free = 1 /\ cache_arena = "freed")

C9_Order ==
  RuntimeState' # RuntimeState =>
    <<RuntimeState, RuntimeState'>> \in
      {<<"Uninitialized", "Active">>, <<"Active", "TornDown">>}

\* C9: the runtime state only moves Uninitialized -> Active -> Torn Down, so
\* each transition happens at most once and Torn Down is final; the cache's
\* storage arena is created once, at load, and freed once, at unload: never
\* twice and never before it was created.
C9_Lifecycle == [](C9_Counts) /\ [][C9_Order]_vars

\* The module was loaded and has been unloaded.
C9_Witness ==
  /\ RuntimeState = "TornDown" /\ ret.op = "Unload"
  /\ n_new = 1 /\ n_free = 1

\* C10 as claimed: after a load that fails at a registration step the storage
\* arena allocated by that load is released and the accessor returns no
\* usable state.
C10_FailedLoadIsClean ==
  (ret.op = "Load" /\ ret.key # 0) =>
    /\ ret.val = NULL
    /\ cache_arena # "live"
    /\ ~PyUpb_ModuleState_Get(M)


\* A call of Add, Remove, Get or NewArenaHandle: alone, inside a get-or-create,
\* or as the Remove of a registered wrapper's destructor.
CacheCall ==
  \/ \E p \in Keys : Lookup(p) \/ GetOrCreate(p) \/ StrayDelete(p)
  \/ \E p \in Keys, w \in WIds : DuplicateAdd(p, w)
  \/ \E alloc_ok \in BOOLEAN : NewArena(alloc_ok)
  \/ \E w \in WIds : objs[w].kind = "desc" /\ objs[w].refcnt = 1 /\ Release(w)

\* The events of a handler's log that read or write the cache table.
TableEvents(l) == {i \in DOMAIN l : l[i][1] \in {"Get", "Add", "Remove"}}

C11_AccessorIffActive ==
  /\ PyUpb_ModuleState_Get(M) <=> (cache_arena = "live")
  /\ (cache_arena = "live") <=> Active
  /\ (cache_arena = "unset") <=> (RuntimeState = "Uninitialized")

C11_OutsideActive ==
  (~Active /\ CacheCall) => (fatal' /\ obj_cache' = obj_cache /\ log' = <<>>)

\* C11 (under SpecMisuse): the accessor returns the state exactly while the
\* runtime is Active, that is from the creation of the storage arena to its
\* release, and a call of Add, Remove, Get or NewArenaHandle made while it is
\* Uninitialized or Torn Down ends the process in the accessor, before the
\* table is read or written.
C11_AccessorGuardsTable ==
  [](C11_AccessorIffActive) /\ [][C11_OutsideActive]_vars

\* A Get made after teardown has ended the process without a table call.
C11_Witness ==
  fatal /\ RuntimeState = "TornDown" /\ ret.op = "Get" /\ log = <<>>

C12_NoTableEvent == cache_arena = "freed" => TableEvents(log) = {}

\* C12: once unload has freed the storage arena no handler reads or writes
\* the table: the table stays as unload left it, and the Remove of a
\* registered wrapper destroyed after unload stops in the accessor.
C12_NoUseAfterTeardown ==
  [](C12_NoTableEvent) /\ [][cache_arena = "freed" => obj_cache' = obj_cache]_vars

\* A registered wrapper outlived unload; its destructor ran and stopped in
\* the accessor, and its entry is still where unload left it.
C12_Witness ==
  /\ cache_arena = "freed" /\ fatal /\ ret.op = "Release"
  /\ objs[ret.val].kind = "desc" /\ objs[ret.val].refcnt = 0
  /\ obj_cache[objs[ret.val].key] = ret.val /\ log = <<>>

\* The arena wrappers that have been constructed.
ArenaWrappers == {w \in WIds : objs[w].kind = "arena"}

C13_OneOwner ==
  /\ \A w \in ArenaWrappers :
        /\ objs[w].arena \in ArenaIds
        /\ arenas[objs[w].arena] = IF objs[w].st = "live" THEN "live" ELSE "freed"
  /\ \A v, w \in ArenaWrappers : v # w => objs[v].arena # objs[w].arena
  /\ \A a \in ArenaIds : arenas[a] # "double_freed"

C13_FreedByOwnerOnly ==
  \A a \in ArenaIds :
    /\ (arenas[a] = "live" /\ arenas'[a] # "live") =>
          /\ arenas'[a] = "freed" /\ ret'.op = "Release"
          /\ objs[ret'.val].arena = a /\ objs'[ret'.val].st = "dead"
    /\ (arenas[a] = "unalloc" /\ arenas'[a] # "unalloc" /\ ~fatal') =>
          /\ ret'.op = "NewArena" /\ objs[ret'.val].st = "unborn"
          /\ objs'[ret'.val].arena = a
    /\ arenas[a] = "freed" => arenas'[a] = "freed"

\* C13: every arena wrapper owns a native arena of its own, made by the
\* NewArenaHandle that made the wrapper; the arena is live exactly as long as
\* the wrapper and is freed once, by the wrapper's destructor and by no other
\* operation.
C13_ExclusiveOwnership == [](C13_OneOwner) /\ [][C13_FreedByOwnerOnly]_vars

\* Two arena wrappers were made; one has been destroyed after unload and its
\* arena freed, the other is live with its arena.
C13_Witness ==
  \E v, w \in ArenaWrappers :
    /\ objs[v].st = "dead" /\ arenas[objs[v].arena] = "freed"
    /\ objs[w].st = "live" /\ arenas[objs[w].arena] = "live"
    /\ cache_arena = "freed"


\* C17 as stated: while the runtime is Active every live wrapper that has been
\* handed out is found in the cache.
C17_EveryVisibleWrapperPublished ==
  Active => \A w \in WIds :
    (objs[w].st = "live" /\ handles[w] > 0) => \E p \in Keys : obj_cache[p] = w

\* C17: while the runtime is Active a live wrapper of a registered kind that
\* has been handed out is what Get returns for its address, from the return of
\* the get-or-create that made it until its last handle is dropped; an arena
\* wrapper is handed out without ever being entered in the cache.
C17_ImmediatePublication ==
  Active => \A w \in WIds :
    (objs[w].st = "live" /\ handles[w] > 0) =>
      IF objs[w].kind = "desc"
      THEN PyUpb_ObjCache_Get(M, objs[w].key).val = w
      ELSE \A p \in Keys : obj_cache[p] # w

\* A get-or-create has just made and returned a wrapper, which Get finds,
\* while an arena wrapper is held that no Get finds.
C17_Witness ==
  /\ Active /\ ret.op = "GetOrCreate" /\ Called([log |-> log], "Add")
  /\ handles[ret.val] = 1 /\ PyUpb_ObjCache_Get(M, ret.key).val = ret.val
  /\ \E w \in ArenaWrappers : objs[w].st = "live" /\ handles[w] > 0

\* C18: a NewArenaHandle whose wrapper allocation fails returns NULL to its
\* caller without ending the process and leaves no native arena allocated.
C18_FailedConstructionIsClean ==
  [][ (Active /\ arena_type /\ NewArena(FALSE))
        => (~fatal' /\ ret'.val = NULL /\ arenas' = arenas) ]_vars

\* The keys of the events of a log whose call is one of `names`.
EventKeys(l, names) == {l[i][2] : i \in {j \in DOMAIN l : l[j][1] \in names}}

C19_Step ==
  \A k \in Keys :
    /\ k \notin EventKeys(log', {"Add", "Remove"}) => obj_cache'[k] = obj_cache[k]
    /\ ( /\ TableEvents(log') # {}
         /\ k \notin EventKeys(log', {"Get", "Add", "Remove"})
         /\ obj_cache[k] # NULL )
        => objs'[obj_cache[k]] = objs[obj_cache[k]]

\* C19 (under SpecMisuse): a handler changes the entry of a key only by an Add
\* or a Remove on that key, so a Get changes no entry; and a handler that
\* calls Add, Remove or Get leaves the entry and the wrapper (its reference
\* count included) of every key it was not called on as they were.
C19_Frame == [][C19_Step]_vars

\* An Add has entered a wrapper under one key while another key has an entry.
C19_Witness ==
  /\ ret.op = "GetOrCreate" /\ Called([log |-> log], "Add") /\ ~fatal
  /\ obj_cache[ret.key] = ret.val
  /\ \E k \in Keys \ {ret.key} : obj_cache[k] # NULL

\* The registration steps a load with first failing step `fail` (0: none) runs.
C20_StepsRun(fail) ==
  LET order == <<"InitDescriptorContainers", "InitDescriptorPool",
                 "InitDescriptor", "InitArena">>
  IN [i \in 1..(IF fail = 0 THEN 4 ELSE fail) |->
        <<order[i], IF i = fail THEN 0 ELSE 1, NULL>>]

\* C20: a load creates the storage arena, then the empty table, then runs the
\* registration steps in the order descriptor containers, descriptor pool,
\* descriptor, arena type up to and including the first that fails; it
\* returns the module exactly when none failed, and then the runtime is
\* Active with an empty cache.
C20_LoadOrder ==
  ret.op = "Load" =>
    /\ log = <<<<"upb_arena_new", NULL, NULL>>, <<"upb_inttable_init", NULL, NULL>>>>
              \o C20_StepsRun(ret.key)
    /\ (ret.val # NULL) <=> (ret.key = 0)
    /\ ret.val # NULL => (Active /\ obj_cache = EmptyTable /\ ~fatal)

\* A load whose second step failed: the third and fourth did not run.
C20_Witness == ret.op = "Load" /\ ret.key = 2 /\ Len(log) = 4 /\ ret.val = NULL


\* What the claim promises of a direct construction attempt on class cls.
C15_Refused(cls) ==
  /\ ~fatal' /\ ret'.val = NULL
  /\ \E i \in DOMAIN log' :
       log'[i] = <<"PyErr_Format", TypeName(cls), NULL>>
  /\ UNCHANGED <<mod_st, mod_refcnt, by_index, cache_arena, n_new, n_free,
                 obj_cache, arena_type, objs, arenas, name_refcnt, handles>>

\* C15 (under SpecForbidden): a direct construction attempt on a wrapper type
\* always raises a RuntimeError whose message names that type, returns NULL,
\* leaves the cache, the wrappers and the runtime state as they were, and
\* leaves the reference count of the type's name where it was.
C15_ForbiddenConstructor ==
  [][\A cls \in Classes, name_ok \in BOOLEAN :
       ForbiddenNew(cls, name_ok) => C15_Refused(cls)]_vars

\* The same, for the attempts in which the name lookup succeeds.
C15_RefusedWhenNamed ==
  [][\A cls \in Classes : ForbiddenNew(cls, TRUE) => C15_Refused(cls)]_vars


\* The live wrappers whose native object lives in the arena of wrapper aw.
Dependents(aw) == {w \in WIds : objs[w].st = "live" /\ objs[w].owner = aw}

C16_PerCallLocking ==
  [][\A t \in Threads : ThreadAdd(t) => obj_cache[SharedKey] = NULL]_vars

C16_NeverOverwritten ==
  \A k \in Keys :
    (obj_cache[k] # NULL /\ obj_cache'[k] # obj_cache[k]) => obj_cache'[k] = NULL

C16_WholeIsSafe ==
  \A t \in Threads :
    (ThreadAdd(t) /\ th[t].mode = "whole") => obj_cache[SharedKey] = NULL

\* C16 (under SpecThreads): with every call inside the domain an entry is
\* never written over, and a thread that keeps the domain from its Get to
\* its Add never issues an Add for a key that is present.
C16_WholeGetOrCreateLocking ==
  [][C16_NeverOverwritten /\ C16_WholeIsSafe]_vars

\* A thread that kept the domain across its get-or-create has added its
\* wrapper while another thread, which had missed before, is about to Add.
C16_Witness ==
  \E t \in Threads, s \in Threads :
    /\ s # t /\ th[s].pc = "miss" /\ th[s].mode = "percall"
    /\ th[t].pc = "have" /\ th[t].mode = "whole"
    /\ ret = [op |-> "Add", key |-> SharedKey, val |-> th[t].w]
    /\ obj_cache[SharedKey] = th[t].w

====
